---- MODULE Spec2Model ----
(***************************************************************************)
(* A model of agentq's BaseAgent (src/agentq/core/agent/base.py): the      *)
(* message log kept by one agent instance, BaseAgent.run (input check,     *)
(* history policy, vision analysis, context fusion, system-message         *)
(* augmentation, model call, JSON parsing, optional-field repair and       *)
(* pydantic construction) and BaseAgent._append_tool_response.             *)
(*                                                                         *)
(* Text is modelled as a sequence of tokens: a token stands for a piece    *)
(* of text whose inner structure plays no role (the system prompt, the     *)
(* schema instruction, one serialized field).                              *)
(***************************************************************************)
EXTENDS Integers, Sequences, FiniteSets, TLC

\* Number of operations (run calls and tool dispatches) on the agent.
MaxCalls == 2

(***************************************************************************)
(* The output schema (a pydantic model type).                              *)
(***************************************************************************)
FieldNames == {"plan", "final_response"}

\* Field annotations by what the check of base.py:226 sees of them:
\*   "str"       has no __args__
\*   "List"      a generic: has __args__, NoneType is not among them
\*   "Optional"  Union[..., None]: has __args__, NoneType is among them
Annotations == {"str", "List", "Optional"}

FieldInfo == [annotation : Annotations, has_default : BOOLEAN]

Schemas == [FieldNames -> FieldInfo]

has_args(annotation) == annotation \in {"List", "Optional"}

args_contain_NoneType(annotation) == annotation = "Optional"

\* Lines 223-230 sort a missing field into "optional" (the annotation has
\* __args__ and NoneType is among them) and "required" (any other field).
IsOptional(schema, f) ==
    has_args(schema[f].annotation) /\ args_contain_NoneType(schema[f].annotation)

IsRequired(schema, f) == ~IsOptional(schema, f)

(***************************************************************************)
(* The model's raw response (response.choices[0].message.content).         *)
(*   kind "garbage"  text that is not JSON                                 *)
(*   kind "array"    JSON, but a list                                      *)
(*   kind "null"     JSON, but the literal null                            *)
(*   kind "object"   a JSON object; obj gives each schema field's value:   *)
(*                   "absent" (key omitted), "null", "ok" (a value of the  *)
(*                   field's type) or "bad" (a value of another type)      *)
(*   kind "nocontent" the message carries no content (None)                *)
(*   kind "tool_calls" the message requests the tool calls                 *)
(*                   RequestedToolCalls and carries no content (None)      *)
(***************************************************************************)
Values == {"absent", "null", "ok", "bad"}

AllAbsent == [f \in FieldNames |-> "absent"]

NonObjectKinds == {"garbage", "array", "null", "nocontent", "tool_calls"}

RawResponses ==
    [kind : {"object"}, obj : [FieldNames -> Values]]
        \cup [kind : NonObjectKinds, obj : {AllAbsent}]

NoRaw == [kind |-> "-", obj |-> AllAbsent]

(***************************************************************************)
(* Exceptions and results of run.                                          *)
(*   type    the class of the raised exception                             *)
(*   cause   the exception whose text str(e) the message embeds            *)
(*   fields  the field names the message names                             *)
(*   raw     the raw response text the exception carries (NoRaw: none)     *)
(***************************************************************************)
NoError == [type |-> "-", cause |-> "-", fields |-> {}, raw |-> NoRaw]

Error(type, cause, fields) ==
    [type |-> type, cause |-> cause, fields |-> fields, raw |-> NoRaw]

NoOutput == [f \in FieldNames |-> "-"]

Returned(output) == [outcome |-> "returned", error |-> NoError, output |-> output]

Raised(error) == [outcome |-> "raised", error |-> error, output |-> NoOutput]

\* json.loads(response_content)
json_loads(raw) ==
    CASE raw.kind \in {"nocontent", "tool_calls"} ->
                                   [ok |-> FALSE, error |-> "TypeError"]
      [] raw.kind = "garbage"   -> [ok |-> FALSE, error |-> "JSONDecodeError"]
      [] OTHER                  -> [ok |-> TRUE, error |-> "-"]

\* json_response.keys() exists only on a dict
has_keys(raw) == raw.kind = "object"

RepairNothing(schema, obj) == obj

\* The loop over model_fields: a missing field whose annotation has __args__
\* containing NoneType gets the value None; any other field is left alone.
Repair(schema, obj) ==
    [f \in FieldNames |->
        IF obj[f] = "absent" /\ IsOptional(schema, f)
        THEN "null"
        ELSE obj[f]]

\* pydantic's validation of one field of self.output_format(**json_response)
FieldFault(info, value) ==
    CASE value = "absent" -> ~info.has_default
      [] value = "null"   -> info.annotation # "Optional"
      [] value = "bad"    -> TRUE
      [] OTHER            -> FALSE

FieldResult(info, value) ==
    CASE value = "absent" -> "default"
      [] value = "null"   -> "None"
      [] OTHER            -> "value"

Offending(schema, obj) == {f \in FieldNames : FieldFault(schema[f], obj[f])}

\* self.output_format(**json_response): a ValidationError naming every
\* offending field, or the validated model instance.
Construct(schema, obj) ==
    IF Offending(schema, obj) # {}
    THEN [ok |-> FALSE, fields |-> Offending(schema, obj), output |-> NoOutput]
    ELSE [ok |-> TRUE, fields |-> {},
          output |-> [f \in FieldNames |-> FieldResult(schema[f], obj[f])]]

\* except (json.JSONDecodeError, ValueError) as e, for e a JSONDecodeError
ParseFailure(raw) == Error("ValueError", "JSONDecodeError", {})

\* except (json.JSONDecodeError, ValueError) as e, for e a ValidationError
\* (a ValueError); str(e) names the offending fields.
SchemaFailure(raw, fields) == Error("ValueError", "ValidationError", fields)

\* The try block of run, from json.loads to return / raise.
ParseResponse(schema, raw) ==
    IF ~json_loads(raw).ok
    THEN IF json_loads(raw).error = "JSONDecodeError"
         THEN Raised(ParseFailure(raw))
         ELSE Raised(Error("TypeError", "-", {}))
    ELSE IF ~has_keys(raw)
    THEN Raised(Error("AttributeError", "-", {}))
    ELSE LET built == Construct(schema, Repair(schema, raw.obj))
         IN  IF built.ok
             THEN Returned(built.output)
             ELSE Raised(SchemaFailure(raw, built.fields))

(***************************************************************************)
(* Input envelopes, messages and context fusion.                           *)
(***************************************************************************)
Objectives == {"open example.com", "find the price"}

PageFields == {"current_page_dom", "current_page_url"}

\* valid: isinstance(input_data, self.input_format); fields: the attributes
\* the envelope has besides objective.
InvalidEnvelope == [valid |-> FALSE, objective |-> "-", fields |-> {}]

Envelopes ==
    [valid : {TRUE}, objective : Objectives, fields : SUBSET PageFields]
        \cup {InvalidEnvelope}

FieldValue(e, f) ==
    CASE f = "objective"        -> e.objective
      [] f = "current_page_url" -> "<url>"
      [] f = "current_page_dom" -> "<dom>"

Serialize(e, f, exclude) ==
    IF f \in ({"objective"} \cup e.fields) \ exclude
    THEN <<f, FieldValue(e, f)>>
    ELSE <<>>

\* input_data.model_dump_json(exclude=...): the fields in declaration order
model_dump_json(e, exclude) ==
    Serialize(e, "objective", exclude)
        \o Serialize(e, "current_page_url", exclude)
        \o Serialize(e, "current_page_dom", exclude)

Message(role, content) ==
    [role |-> role, content |-> content, name |-> "", tool_call_id |-> ""]

ToolMessageWithoutId(id, name, content) ==
    [role |-> "tool", content |-> content, name |-> name, tool_call_id |-> ""]

ToolMessage(id, name, content) ==
    [role |-> "tool", content |-> content, name |-> name, tool_call_id |-> id]

\* self.messages = [{"role": "system", "content": self.system_prompt}]
initialize_messages(prompt) == <<Message("system", prompt)>>

(***************************************************************************)
(* _analyze_screenshot_with_vision: what the vision model call gives.      *)
(*   "analysis"  a JSON object with a non-empty visual_analysis            *)
(*   "empty"     a JSON object whose visual_analysis is the empty string   *)
(*   "no_key"    a JSON object without the key visual_analysis             *)
(*   "fail"      the call raises, or the text is no JSON object            *)
(***************************************************************************)
VisionOutcomes == {"analysis", "empty", "no_key", "fail"}

analyze_screenshot_with_vision(v) ==
    CASE v = "analysis" -> "<visual analysis>"
      [] v = "empty"    -> ""
      [] v = "no_key"   -> "No visual analysis available"
      [] OTHER          -> "Vision analysis unavailable - proceeding with DOM-only analysis"

\* visual_analysis is None when no screenshot is supplied
NoAnalysis == "None"

Truthy(text) == text \notin {NoAnalysis, ""}

\* Lines 138-156: the first user message of the call.
UserMessageAsAssistant(e, visual_analysis) ==
    Message("assistant", model_dump_json(e, PageFields))

UserMessage(e, visual_analysis) ==
    IF Truthy(visual_analysis)
    THEN Message("user",
                 <<"VISUAL ANALYSIS: ", visual_analysis, "USER INPUT: ">>
                     \o model_dump_json(e, PageFields))
    ELSE Message("user", model_dump_json(e, PageFields))

\* Lines 159-163: the page-state message, appended when the envelope has both
\* attributes.
HasPageMessage(e) ==
    "current_page_dom" \in e.fields /\ "current_page_url" \in e.fields

PageMessage(e) ==
    Message("user", <<"Current page URL:", FieldValue(e, "current_page_url"),
                      "Current page DOM:", FieldValue(e, "current_page_dom")>>)

ContextFusionPrepend(log, e, visual_analysis) ==
    IF HasPageMessage(e)
    THEN <<UserMessage(e, visual_analysis), PageMessage(e)>> \o log
    ELSE <<UserMessage(e, visual_analysis)>> \o log

ContextFusionDedup(log, e, visual_analysis) ==
    LET fresh(m) == \A i \in DOMAIN log : log[i] # m
        first == IF fresh(UserMessage(e, visual_analysis))
                 THEN Append(log, UserMessage(e, visual_analysis))
                 ELSE log
    IN  IF HasPageMessage(e) /\ fresh(PageMessage(e))
        THEN Append(first, PageMessage(e))
        ELSE first

ContextFusion(log, e, visual_analysis) ==
    IF HasPageMessage(e)
    THEN Append(Append(log, UserMessage(e, visual_analysis)), PageMessage(e))
    ELSE Append(log, UserMessage(e, visual_analysis))

json_instruction == "<json_instruction>"

\* self.messages[0]["content"] += json_instruction
AugmentSystem(log) ==
    [log EXCEPT ![1].content = Append(@, json_instruction)]

(***************************************************************************)
(* The model transport: a raw response, or the call raises.                *)
(***************************************************************************)
TransportError == [kind |-> "transport_error", obj |-> AllAbsent]

ModelReplies == RawResponses \cup {TransportError}

(***************************************************************************)
(* Tool calls handed to _append_tool_response.                             *)
(***************************************************************************)
ToolNames == {"click"}

MaxTools == 2

\* Callables: click and open_url, and a second function whose __name__ is
\* click as well.
Functions ==
    {[id |-> "click", name |-> "click"],
     [id |-> "click (another function)", name |-> "click"],
     [id |-> "open_url", name |-> "open_url"]}

\* The tools argument of __init__: (function, description) pairs
ToolLists == UNION {[1..n -> Functions] : n \in 0..MaxTools}

DefaultTools == <<[id |-> "click", name |-> "click"]>>

\* get_function_schema(func, description=func_desc); built_from records the
\* function the schema was made of.
get_function_schema(func) == [name |-> func.name, built_from |-> func.id]

\* Lines 77-80, the list: one schema for each pair, in order
initialize_tools_list(tools) ==
    [i \in DOMAIN tools |-> get_function_schema(tools[i])]

\* Lines 77-80, the dict: executable_functions_list[func.__name__] = func, a
\* later pair replacing an earlier one of the same name
initialize_executable_functions_list(tools) ==
    [n \in {tools[i].name : i \in DOMAIN tools} |->
        LET last_i == CHOOSE i \in DOMAIN tools :
                          /\ tools[i].name = n
                          /\ \A j \in DOMAIN tools : j > i => tools[j].name # n
        IN  tools[last_i].id]

ToolCalls ==
    [id : {"call_1", "call_2"},
     name : ToolNames \cup {"nonexistent_tool"},
     arguments : {"json", "not json"}]

NoToolCall == [id |-> "-", name |-> "-", arguments |-> "-"]

\* response.choices[0].message.tool_calls of a response of kind "tool_calls"
RequestedToolCalls ==
    <<[id |-> "call_1", name |-> "click", arguments |-> "json"],
      [id |-> "call_2", name |-> "click", arguments |-> "json"]>>

ToolBehaviours == {"returns", "raises"}

(***************************************************************************)
(* State of one agent instance.                                            *)
(*   agent_class    the class of the instance: BaseAgent or VisionAgent    *)
(*   tools_list     the schemas of the registered tools                    *)
(*   transport      the client selected at construction, whether its       *)
(*                  credentials are in the environment, and what became of *)
(*                  self.client                                            *)
(*   has_messages   whether the attribute self.messages exists             *)
(*   calls          operations performed so far                            *)
(*   last           what the last operation was given and how it ended     *)
(*   performed      the skill and executor calls made so far, in order     *)
(*   invocation     the latest call of a browser tool or of                *)
(*                  execute_sub_task and how it ended                      *)
(*   tasks          the run calls made as separate tasks of the host       *)
(*                  process, each with its position in run's body          *)
(*   host           what drives the tasks, and the task it is executing    *)
(***************************************************************************)
VARIABLES agent_class, system_prompt, keep_message_history, output_format,
          tools_list, executable_functions_list, transport, messages,
          has_messages, calls, last, tasks, host, performed, invocation

vars == <<agent_class, system_prompt, keep_message_history, output_format,
          tools_list, executable_functions_list, transport, messages,
          has_messages, calls, last, tasks, host, performed, invocation>>

browser == <<performed, invocation>>

scheduling == <<tasks, host>>

config == <<agent_class, system_prompt, keep_message_history, output_format,
            tools_list, executable_functions_list, transport>>

\* The client argument of __init__; "anthropic" stands for every string that
\* none of the branches of lines 49-69 names.
ClientNames == {"academic_cloud", "openai", "together", "anthropic"}

\* Lines 49-69: self.client after __init__, or the exception __init__ raises.
\* openai.OpenAI() without an API key raises OpenAIError.
ClientInit(client, credentials) ==
    CASE client = "academic_cloud" -> IF credentials THEN "OpenAI" ELSE "ValueError"
      [] client = "openai"         -> IF credentials THEN "OpenAI" ELSE "OpenAIError"
      [] client = "together"       -> IF credentials THEN "OpenAI" ELSE "KeyError"
      [] OTHER                     -> "unset"

Transports ==
    {[client_name |-> c, credentials |-> k, client |-> ClientInit(c, k)] :
        c \in ClientNames, k \in BOOLEAN}

\* The default client with its credentials set
Connected ==
    transport = [client_name |-> "academic_cloud", credentials |-> TRUE,
                 client |-> ClientInit("academic_cloud", TRUE)]

\* __init__ returned an instance
Constructed == transport.client \in {"OpenAI", "unset"}

has_client == transport.client = "OpenAI"

SystemPrompts == {<<>>, <<"<system prompt>">>}

NoOp ==
    [op |-> "none", input |-> InvalidEnvelope, screenshot |-> FALSE,
     vision |-> "-", reply |-> NoRaw, tool_call |-> NoToolCall,
     behaviour |-> "-", start |-> <<>>, model |-> "-",
     outcome |-> "-", error |-> NoError, output |-> NoOutput,
     vision_calls |-> 0, model_calls |-> 0]

\* BaseAgent.__init__
Construct_Agent(prompts, policies, schemas, toolLists) ==
    /\ agent_class = "BaseAgent"
    /\ system_prompt \in prompts
    /\ keep_message_history \in policies
    /\ output_format \in schemas
    /\ \E tools \in toolLists :
          /\ tools_list = initialize_tools_list(tools)
          /\ executable_functions_list =
                 initialize_executable_functions_list(tools)
    /\ has_messages = (system_prompt # <<>>)
    /\ messages = IF system_prompt # <<>>
                  THEN initialize_messages(system_prompt)
                  ELSE <<>>
    /\ calls = 0
    /\ last = NoOp

\* model_name = os.environ.get("MODEL_NAME", "qwen3-32b")
model_name == "qwen3-32b"

\* vision_model_name = os.environ.get("VISION_MODEL_NAME", "internvl2.5-8b")
vision_model_name == "internvl2.5-8b"

isinstance_of_anything(e) == TRUE

\* Line 118: isinstance(input_data, self.input_format)
isinstance_of_input_format(e) == e.valid

StartLogNeverReset(keep, log, prompt) == log

\* Lines 121-123: the log a call starts from.
StartLog(keep, log, prompt) ==
    IF keep THEN log ELSE initialize_messages(prompt)

\* BaseAgent.run
Run(e, screenshot, v, reply) ==
    LET exists == ~keep_message_history \/ has_messages
        start == StartLog(keep_message_history, messages, system_prompt)
        \* without self.client the vision request fails inside the try block
        visual_analysis == IF ~screenshot THEN NoAnalysis
                           ELSE IF has_client
                           THEN analyze_screenshot_with_vision(v)
                           ELSE analyze_screenshot_with_vision("fail")
        call == [NoOp EXCEPT !.op = "run", !.input = e]
        began == [call EXCEPT !.screenshot = screenshot,
                              !.vision = v,
                              !.vision_calls = IF screenshot /\ has_client
                                               THEN 1 ELSE 0]
        result == IF reply = TransportError
                  THEN Raised(Error("APIError", "-", {}))
                  ELSE ParseResponse(output_format, reply)
    IN
    /\ agent_class = "BaseAgent"
    /\ Constructed
    /\ calls' = calls + 1
    /\ UNCHANGED <<config, browser, scheduling>>
    /\ IF ~isinstance_of_input_format(e)
       THEN /\ last' = [call EXCEPT !.outcome = "raised",
                                    !.error = Error("ValueError", "input_format", {})]
            /\ UNCHANGED <<messages, has_messages>>
       ELSE IF ~exists
       THEN /\ last' = [began EXCEPT !.outcome = "raised",
                                     !.error = Error("AttributeError", "-", {})]
            /\ UNCHANGED <<messages, has_messages>>
       ELSE IF ~has_client
       THEN \* line 179: self.client does not exist
            /\ messages' = AugmentSystem(ContextFusion(start, e, visual_analysis))
            /\ has_messages' = TRUE
            /\ last' = [began EXCEPT !.start = start,
                                     !.outcome = "raised",
                                     !.error = Error("AttributeError", "-", {})]
       ELSE /\ messages' = AugmentSystem(ContextFusion(start, e, visual_analysis))
            /\ has_messages' = TRUE
            /\ last' = [began EXCEPT !.start = start,
                                     !.reply = reply,
                                     !.model = model_name,
                                     !.model_calls = 1,
                                     !.outcome = result.outcome,
                                     !.error = result.error,
                                     !.output = result.output]

\* BaseAgent._append_tool_response
AppendToolResponse(tool_call, behaviour) ==
    LET invoked == /\ tool_call.name \in DOMAIN executable_functions_list
                   /\ tool_call.arguments = "json"
        call == [NoOp EXCEPT !.op = "tool", !.tool_call = tool_call,
                             !.behaviour = IF invoked THEN behaviour ELSE "-"]
        raise(type) == [call EXCEPT !.outcome = "raised",
                                    !.error = Error(type, "-", {})]
    IN
    /\ Constructed
    /\ calls' = calls + 1
    /\ UNCHANGED <<config, browser, has_messages, scheduling>>
    /\ IF tool_call.name \notin DOMAIN executable_functions_list
       THEN /\ last' = raise("KeyError")
            /\ UNCHANGED messages
       ELSE IF tool_call.arguments # "json"
       THEN /\ last' = raise("JSONDecodeError")
            /\ UNCHANGED messages
       ELSE IF behaviour = "returns" /\ has_messages
       THEN /\ messages' = Append(messages,
                                  ToolMessage(tool_call.id, tool_call.name,
                                              <<"<function_response>">>))
            /\ last' = [call EXCEPT !.outcome = "returned"]
       ELSE \* the except block: str(text, function_response)
            /\ last' = raise(IF ~has_messages THEN "AttributeError"
                             ELSE "UnboundLocalError")
            /\ UNCHANGED messages

(***************************************************************************)
(* VisionAgent (src/agentq/core/agent/vision_agent.py).                    *)
(***************************************************************************)
VISION_AGENT_PROMPT == <<"<vision agent prompt>">>

\* VisionOutput: the fields of the verdict, all required
VisionOutput ==
    [f \in FieldNames |-> [annotation |-> "str", has_default |-> FALSE]]

\* VisionAgent.__init__
Construct_VisionAgent ==
    /\ agent_class = "VisionAgent"
    /\ system_prompt = VISION_AGENT_PROMPT
    /\ keep_message_history = FALSE
    /\ output_format = VisionOutput
    /\ tools_list = <<>>
    /\ executable_functions_list = initialize_executable_functions_list(<<>>)
    /\ has_messages = TRUE
    /\ messages = initialize_messages(VISION_AGENT_PROMPT)
    /\ calls = 0
    /\ last = NoOp

\* The parameters of BaseAgent.run besides self
RunParameters == {"input_data", "screenshot", "session_id"}

\* The keyword arguments of the call super().run(...) in VisionAgent.run
SuperRunKeywords == {"input_data", "screenshot", "session_id", "model"}

\* Python binds a call's keyword arguments to the parameters of a function
\* without **kwargs: a keyword that is no parameter raises TypeError.
Binds(keywords, parameters) == keywords \subseteq parameters

\* VisionAgent.run
VisionAgentRun(e, screenshot, v, reply) ==
    /\ agent_class = "VisionAgent"
    /\ IF Binds(SuperRunKeywords, RunParameters)
       THEN Run(e, screenshot, v, reply)
       ELSE /\ calls' = calls + 1
            /\ last' = [NoOp EXCEPT !.op = "vision_run",
                                    !.input = e,
                                    !.screenshot = screenshot,
                                    !.outcome = "raised",
                                    !.error = Error("TypeError", "-", {})]
            /\ UNCHANGED <<config, browser, messages, has_messages, scheduling>>

(***************************************************************************)
(* run calls as tasks of one host process, on the same agent instance.     *)
(*                                                                         *)
(* run is a coroutine (async def).  Its two network calls are calls of the *)
(* synchronous client (openai.OpenAI): they are not awaited, and the one   *)
(* await in its body (of _analyze_screenshot_with_vision) is of a          *)
(* coroutine that never suspends either.  On an event loop a call of run   *)
(* therefore keeps the loop's thread from its first statement to its       *)
(* return; calls driven by event loops of separate threads of the process  *)
(* interleave freely.                                                      *)
(***************************************************************************)
Tasks == {"A", "B"}

Hosts == {"event_loop", "threads"}

NoTask ==
    [pc |-> "-", input |-> InvalidEnvelope, screenshot |-> FALSE,
     visual_analysis |-> NoAnalysis, vision_calls |-> 0, model_calls |-> 0,
     appended |-> 0, sent |-> <<>>,
     outcome |-> "-", error |-> NoError, output |-> NoOutput]

Created == [NoTask EXCEPT !.pc = "created"]

\* The calls of the sequential specifications are not tasks.
Sequential ==
    /\ tasks = [t \in Tasks |-> NoTask]
    /\ host = [kind |-> "event_loop", running |-> "-"]

\* Each task asks for something else.
TaskObjective(t) == IF t = "A" THEN "open example.com" ELSE "find the price"

TaskEnvelopes(t) ==
    {e \in Envelopes : e.valid => /\ e.objective = TaskObjective(t)
                                  /\ e.fields \in {{}, PageFields}}

Final == {"returned", "raised"}

\* A task can take its next step unless the loop's thread is inside another
\* call of run.
CanStep(t) ==
    /\ tasks[t].pc \notin Final \cup {"-"}
    /\ host.kind = "event_loop" => host.running \in {"-", t}

\* The task t moves on as the record next
Step(t, next) ==
    /\ tasks' = [tasks EXCEPT ![t] = next]
    /\ host' = IF host.kind = "event_loop"
               THEN [host EXCEPT !.running = IF next.pc \in Final THEN "-" ELSE t]
               ELSE host

Ends(task, result) ==
    [task EXCEPT !.pc = result.outcome,
                 !.outcome = result.outcome,
                 !.error = result.error,
                 !.output = result.output]

AfterStartSkippingVision(screenshot) == "user"

\* Lines 126-130: the vision call comes first when a screenshot is supplied
AfterStart(screenshot) == IF screenshot THEN "vision" ELSE "user"

\* Lines 118-123: the check of the input, and the history policy
Start(t, e, screenshot) ==
    LET task == [tasks[t] EXCEPT !.input = e, !.screenshot = screenshot]
    IN
    /\ CanStep(t)
    /\ tasks[t].pc = "created"
    /\ calls' = calls + 1
    /\ UNCHANGED <<config, browser, last>>
    /\ IF ~isinstance_of_input_format(e)
       THEN /\ Step(t, Ends(task, Raised(Error("ValueError", "input_format", {}))))
            /\ UNCHANGED <<messages, has_messages>>
       ELSE /\ messages' = StartLog(keep_message_history, messages, system_prompt)
            /\ has_messages' = (has_messages \/ ~keep_message_history)
            /\ Step(t, [task EXCEPT !.pc = AfterStart(screenshot)])

\* Lines 275-279: the request to the vision model
VisionCall(t) ==
    /\ CanStep(t)
    /\ tasks[t].pc = "vision"
    /\ Step(t, [tasks[t] EXCEPT !.pc = "vision_wait",
                                !.vision_calls = @ + 1])
    /\ UNCHANGED <<config, browser, messages, has_messages, calls, last>>

\* Lines 281-287: the vision model's answer, or the failure of the call
VisionReceive(t, v) ==
    /\ CanStep(t)
    /\ tasks[t].pc = "vision_wait"
    /\ Step(t, [tasks[t] EXCEPT !.pc = "user",
                                !.visual_analysis =
                                    analyze_screenshot_with_vision(v)])
    /\ UNCHANGED <<config, browser, messages, has_messages, calls, last>>

\* Lines 138-156: self.messages.append of the user message
AppendUser(t) ==
    /\ CanStep(t)
    /\ tasks[t].pc = "user"
    /\ UNCHANGED <<config, browser, has_messages, calls, last>>
    /\ IF ~has_messages
       THEN /\ Step(t, Ends(tasks[t], Raised(Error("AttributeError", "-", {}))))
            /\ UNCHANGED messages
       ELSE /\ messages' = Append(messages,
                                  UserMessage(tasks[t].input,
                                              tasks[t].visual_analysis))
            /\ Step(t, [tasks[t] EXCEPT !.appended = @ + 1,
                                        !.pc = IF HasPageMessage(tasks[t].input)
                                               THEN "page" ELSE "augment"])

\* Lines 159-163: self.messages.append of the page message
AppendPage(t) ==
    /\ CanStep(t)
    /\ tasks[t].pc = "page"
    /\ messages' = Append(messages, PageMessage(tasks[t].input))
    /\ Step(t, [tasks[t] EXCEPT !.appended = @ + 1, !.pc = "augment"])
    /\ UNCHANGED <<config, browser, has_messages, calls, last>>

\* Lines 166-167: the instruction added to the system message
Augment(t) ==
    /\ CanStep(t)
    /\ tasks[t].pc = "augment"
    /\ messages' = AugmentSystem(messages)
    /\ Step(t, [tasks[t] EXCEPT !.pc = "call"])
    /\ UNCHANGED <<config, browser, has_messages, calls, last>>

RequestOfOwnMessages(log, own) ==
    <<log[1]>> \o SubSeq(log, Len(log) - own + 1, Len(log))

\* Line 180: messages=self.messages, whichever call appended them
Request(log, own) == log

\* Lines 179-204: the request to the text model
CallModel(t) ==
    /\ CanStep(t)
    /\ tasks[t].pc = "call"
    /\ Step(t, [tasks[t] EXCEPT !.pc = "model_wait",
                                !.model_calls = @ + 1,
                                !.sent = Request(messages, tasks[t].appended)])
    /\ UNCHANGED <<config, browser, messages, has_messages, calls, last>>

\* Lines 206-240: the model's response, or the failure of the call
Receive(t, reply) ==
    /\ CanStep(t)
    /\ tasks[t].pc = "model_wait"
    /\ Step(t, Ends(tasks[t], IF reply = TransportError
                              THEN Raised(Error("APIError", "-", {}))
                              ELSE ParseResponse(output_format, reply)))
    /\ UNCHANGED <<config, browser, messages, has_messages, calls, last>>

(***************************************************************************)
(* The browser tools (src/agentq/core/tools/browser_tools.py) and          *)
(* execute_sub_task (src/agentq/core/agent/smol_executor_agent.py).        *)
(***************************************************************************)
BrowserTools ==
    {"open_url", "get_dom_content", "click", "enter_text",
     "enter_text_and_click", "get_current_url", "get_screenshot", "press_key",
     "solve_captcha_tool", "upload_file", "wait_for_page_load"}

Skill(name) == [kind |-> "skill", name |-> name]

Tool(name) == [kind |-> "tool", name |-> name]

\* The names the module binds, in the order of its statements: the imports
\* of lines 5-16, then the definitions of the tools.
ModuleBindings ==
    <<[name |-> "PlaywrightManager", object |-> Skill("PlaywrightManager")],
      [name |-> "do_get_accessibility_info",
       object |-> Skill("do_get_accessibility_info")],
      [name |-> "entertext", object |-> Skill("entertext")],
      [name |-> "click", object |-> Skill("click_using_selector.click")],
      [name |-> "openurl", object |-> Skill("openurl")],
      [name |-> "geturl", object |-> Skill("geturl")],
      [name |-> "enter_text_and_click_skill",
       object |-> Skill("enter_text_and_click")],
      [name |-> "get_screenshot_skill", object |-> Skill("get_screenshot")],
      [name |-> "solve_captcha_skill", object |-> Skill("solve_captcha")],
      [name |-> "upload_file_skill", object |-> Skill("upload_file")],
      [name |-> "press_key_combination_skill",
       object |-> Skill("press_key_combination")],
      [name |-> "open_url", object |-> Tool("open_url")],
      [name |-> "get_dom_content", object |-> Tool("get_dom_content")],
      [name |-> "click", object |-> Tool("click")],
      [name |-> "enter_text", object |-> Tool("enter_text")],
      [name |-> "enter_text_and_click", object |-> Tool("enter_text_and_click")],
      [name |-> "get_current_url", object |-> Tool("get_current_url")],
      [name |-> "get_screenshot", object |-> Tool("get_screenshot")],
      [name |-> "press_key", object |-> Tool("press_key")],
      [name |-> "solve_captcha_tool", object |-> Tool("solve_captcha_tool")],
      [name |-> "upload_file", object |-> Tool("upload_file")],
      [name |-> "wait_for_page_load", object |-> Tool("wait_for_page_load")]>>

\* A global name is looked up when the call executes: it is what the module
\* bound to the name last.
Resolve(name) ==
    LET i == CHOOSE i \in DOMAIN ModuleBindings :
                 /\ ModuleBindings[i].name = name
                 /\ \A j \in DOMAIN ModuleBindings :
                       j > i => ModuleBindings[j].name # name
    IN  ModuleBindings[i].object

\* The name each tool's body calls to do its work
Callee(tool) ==
    CASE tool = "open_url"             -> "openurl"
      [] tool = "get_dom_content"      -> "do_get_accessibility_info"
      [] tool = "click"                -> "click"
      [] tool = "enter_text"           -> "entertext"
      [] tool = "enter_text_and_click" -> "enter_text_and_click_skill"
      [] tool = "get_current_url"      -> "geturl"
      [] tool = "get_screenshot"       -> "get_screenshot_skill"
      [] tool = "press_key"            -> "press_key_combination_skill"
      [] tool = "solve_captcha_tool"   -> "solve_captcha_skill"
      [] tool = "upload_file"          -> "upload_file_skill"
      [] tool = "wait_for_page_load"   -> "PlaywrightManager"

\* The keyword arguments of that call
CallKeywords(tool) ==
    CASE tool = "open_url"             -> {"url", "timeout"}
      [] tool = "get_dom_content"      -> {"only_input_fields"}
      [] tool = "click"                -> {"selector", "wait_before_execution"}
      [] tool = "enter_text_and_click" ->
             {"text_selector", "text_to_enter", "click_selector",
              "wait_before_click_execution"}
      [] tool = "solve_captcha_tool"   ->
             {"text_selector", "click_selector", "wait_before_click_execution"}
      [] tool = "upload_file"          -> {"selector", "file_path"}
      [] OTHER                         -> {}

\* The parameters of each tool
ToolParameters(tool) ==
    CASE tool = "open_url"             -> {"url", "timeout"}
      [] tool = "get_dom_content"      -> {"content_type"}
      [] tool = "click"                -> {"selector"}
      [] tool = "enter_text"           -> {"selector", "text_to_enter"}
      [] tool = "enter_text_and_click" ->
             {"text_selector", "text_to_enter", "click_selector"}
      [] tool = "press_key"            -> {"key_combination"}
      [] tool = "solve_captcha_tool"   -> {"text_selector", "click_selector"}
      [] tool = "upload_file"          -> {"selector", "file_path"}
      [] OTHER                         -> {}

Selectors == {"[mmid='1']", "[mmid='2']"}

\* The value a tool is called with
Arguments(tool) == IF tool = "click" THEN Selectors ELSE {"-"}

\* What a tool returns when the statements of its try block complete: a
\* fixed message, or the value of the skill
Success(tool, argument) ==
    CASE tool = "open_url"    -> <<"Successfully navigated to page: ", "<title>">>
      [] tool = "get_dom_content" -> <<"<dom_content>">>
      [] tool = "click"       ->
             <<"Successfully clicked element with selector: ", argument>>
      [] tool = "enter_text"  -> <<"Successfully entered text '", "<text>">>
      [] tool = "enter_text_and_click" ->
             <<"Successfully entered text '", "<text>", "' and clicked element">>
      [] tool = "get_current_url" -> <<"<url>">>
      [] tool = "get_screenshot"  ->
             <<"Screenshot captured successfully (length: ", "<len>">>
      [] tool = "press_key"   -> <<"Successfully pressed key combination: ", "<key>">>
      [] tool = "solve_captcha_tool" ->
             <<"Captcha solving attempted. Result: ", "<result>">>
      [] tool = "upload_file" -> <<"File upload attempted for: ", "<file_path>">>
      [] tool = "wait_for_page_load" -> <<"Page has finished loading">>

\* The text after "Error" in the message of each tool's except clause
Failure(tool) ==
    CASE tool = "open_url"             -> " navigating to URL: "
      [] tool = "get_dom_content"      -> " getting DOM content: "
      [] tool = "click"                -> " clicking element: "
      [] tool = "enter_text"           -> " entering text: "
      [] tool = "enter_text_and_click" -> " in enter_text_and_click: "
      [] tool = "get_current_url"      -> " getting current URL: "
      [] tool = "get_screenshot"       -> " capturing screenshot: "
      [] tool = "press_key"            -> " pressing key: "
      [] tool = "solve_captcha_tool"   -> " solving captcha: "
      [] tool = "upload_file"          -> " uploading file: "
      [] tool = "wait_for_page_load"   -> " waiting for page load: "

\* Python's exceptions with their base class
ExceptionBase ==
    [TypeError |-> "Exception", TimeoutError |-> "Exception",
     RecursionError |-> "Exception", CancelledError |-> "BaseException"]

\* What an awaited skill or executor can raise: an error of its own, or
\* asyncio.CancelledError when the awaiting task is cancelled
Exceptions == {"TypeError", "TimeoutError", "CancelledError"}

except_TimeoutError(exception) == exception = "TimeoutError"

\* except Exception as e
except_Exception(exception) == ExceptionBase[exception] = "Exception"

\* How the work of a call ends: it completes, or raises one of the exceptions
Outcomes == {"completes"} \cup Exceptions

NoResult == [type |-> "-", value |-> "-"]

NoInvocation ==
    [callable |-> "-", argument |-> "-", work |-> "-", result |-> NoResult,
     skill_calls |-> 0, reentered |-> FALSE,
     outcome |-> "-", error |-> "-", value |-> <<>>]

Handled(call, exception, message) ==
    IF except_Exception(exception)
    THEN [call EXCEPT !.outcome = "returned", !.value = message]
    ELSE [call EXCEPT !.outcome = "raised", !.error = exception]

\* A browser tool called with argument; work is how its skill ends
InvokeTool(tool, argument, work) ==
    LET target == Resolve(Callee(tool))
        call == [NoInvocation EXCEPT !.callable = tool, !.argument = argument]
        error(text) == <<"Error", Failure(tool), text>>
    IN
    /\ calls' = calls + 1
    /\ UNCHANGED <<config, messages, has_messages, last, scheduling>>
    /\ IF target.kind = "tool"
       THEN \* the call goes to a tool of this module, not to a skill; with
            \* keywords that are not its parameters it raises TypeError,
            \* otherwise the tool calls itself until RecursionError
            /\ invocation' =
                   IF Binds(CallKeywords(tool), ToolParameters(target.name))
                   THEN Handled([call EXCEPT !.reentered = TRUE],
                                "RecursionError", error("<str(e)>"))
                   ELSE Handled([call EXCEPT !.reentered = TRUE],
                                "TypeError", error("<str(e)>"))
            /\ UNCHANGED performed
       ELSE /\ performed' = Append(performed,
                                   [callee |-> target.name, argument |-> argument])
            /\ invocation' =
                   IF work = "completes"
                   THEN [call EXCEPT !.work = work, !.skill_calls = 1,
                                     !.outcome = "returned",
                                     !.value = Success(tool, argument)]
                   ELSE Handled([call EXCEPT !.work = work, !.skill_calls = 1],
                                work, error("<str(e)>"))

SubTasks == {"open the page", "print hello"}

\* What smol_executor.run returns
Results ==
    {[type |-> "str", value |-> "done"], [type |-> "int", value |-> "42"],
     [type |-> "NoneType", value |-> "-"]}

repr(result) ==
    CASE result.type = "str"      -> "'done'"
      [] result.type = "NoneType" -> "None"
      [] OTHER                    -> result.value

\* str(result)
str(result) ==
    CASE result.type = "str"      -> result.value
      [] result.type = "NoneType" -> "None"
      [] OTHER                    -> result.value

\* execute_sub_task; work is how smol_executor.run ends
ExecuteSubTask(sub_task, work, result) ==
    LET call == [NoInvocation EXCEPT !.callable = "execute_sub_task",
                                     !.argument = sub_task,
                                     !.work = work, !.skill_calls = 1]
    IN
    /\ calls' = calls + 1
    /\ UNCHANGED <<config, messages, has_messages, last, scheduling>>
    /\ performed' = Append(performed,
                           [callee |-> "smol_executor.run", argument |-> sub_task])
    /\ invocation' =
           IF work = "completes"
           THEN [call EXCEPT !.result = result, !.outcome = "returned",
                             !.value = <<str(result)>>]
           ELSE Handled(call, work,
                        <<"Error executing sub-task", " '", sub_task, "': ",
                          "<str(e)>">>)

\* No browser tool and no sub-task has been called
NoBrowser ==
    /\ performed = <<>>
    /\ invocation = NoInvocation

(***************************************************************************)
(* Spec: one agent under either history policy, with or without a system   *)
(* prompt, given every envelope, screenshot and vision outcome; its output *)
(* schema is the planner-like PlanSchema and the model's replies are one   *)
(* of each kind.                                                           *)
(***************************************************************************)
PlanSchema ==
    [f \in FieldNames |->
        IF f = "plan"
        THEN [annotation |-> "List", has_default |-> FALSE]
        ELSE [annotation |-> "Optional", has_default |-> FALSE]]

AllOk == [f \in FieldNames |-> "ok"]

SomeReplies ==
    {TransportError}
        \cup [kind : {"garbage", "array", "tool_calls"}, obj : {AllAbsent}]
        \cup [kind : {"object"}, obj : {AllOk, AllAbsent}]

\* The inputs of a run call: a vision outcome is drawn only when a
\* screenshot is supplied, and an invalid envelope carries nothing else.
RunInputs(envelopes, replies) ==
    [e : envelopes \ {InvalidEnvelope}, screenshot : {TRUE}, v : VisionOutcomes,
     reply : replies]
        \cup [e : envelopes \ {InvalidEnvelope}, screenshot : {FALSE}, v : {"-"},
              reply : replies]
        \cup [e : envelopes \cap {InvalidEnvelope}, screenshot : {FALSE},
              v : {"-"}, reply : {NoRaw}]

Init ==
    /\ \/ Construct_Agent(SystemPrompts, BOOLEAN, {PlanSchema},
                       {DefaultTools})
       \/ Construct_VisionAgent
    /\ Connected
    /\ Sequential
    /\ NoBrowser

Next ==
    /\ calls < MaxCalls
    /\ \/ \E i \in RunInputs(Envelopes, SomeReplies) :
             Run(i.e, i.screenshot, i.v, i.reply)
       \/ \E tool_call \in ToolCalls, behaviour \in ToolBehaviours :
             AppendToolResponse(tool_call, behaviour)
       \/ \E e \in Envelopes \ {InvalidEnvelope}, screenshot \in BOOLEAN :
             VisionAgentRun(e, screenshot, "-", NoRaw)

Spec == Init /\ [][Next]_vars

(***************************************************************************)
(* SpecSchemas: one agent with a system prompt under either history        *)
(* policy, with every output schema and every raw response; the envelope   *)
(* is one with both page fields, or an invalid one, and no screenshot.     *)
(***************************************************************************)
PageEnvelope ==
    [valid |-> TRUE, objective |-> "open example.com", fields |-> PageFields]

InitSchemas ==
    /\ Construct_Agent(SystemPrompts \ {<<>>}, BOOLEAN, Schemas,
                       {DefaultTools})
    /\ Connected
    /\ Sequential
    /\ NoBrowser

NextSchemas ==
    /\ calls < MaxCalls
    /\ \/ \E i \in RunInputs({PageEnvelope, InvalidEnvelope}, ModelReplies) :
             i.screenshot = FALSE /\ Run(i.e, i.screenshot, i.v, i.reply)
       \/ \E tool_call \in ToolCalls, behaviour \in ToolBehaviours :
             AppendToolResponse(tool_call, behaviour)

SpecSchemas == InitSchemas /\ [][NextSchemas]_vars

(***************************************************************************)
(* SpecTasks: two run calls made as tasks of one host process on the same  *)
(* agent instance, under either history policy and either host.            *)
(***************************************************************************)
TaskReplies ==
    {TransportError, [kind |-> "garbage", obj |-> AllAbsent],
     [kind |-> "object", obj |-> AllOk]}

InitTasks ==
    /\ Construct_Agent(SystemPrompts, BOOLEAN, {PlanSchema},
                       {DefaultTools})
    /\ Connected
    /\ NoBrowser
    /\ tasks = [t \in Tasks |-> Created]
    /\ host \in [kind : Hosts, running : {"-"}]

NextTasks ==
    \E t \in Tasks :
        \/ \E e \in TaskEnvelopes(t), screenshot \in BOOLEAN :
              Start(t, e, screenshot)
        \/ VisionCall(t)
        \/ \E v \in VisionOutcomes : VisionReceive(t, v)
        \/ AppendUser(t)
        \/ AppendPage(t)
        \/ Augment(t)
        \/ CallModel(t)
        \/ \E reply \in TaskReplies : Receive(t, reply)

SpecTasks == InitTasks /\ [][NextTasks]_vars

(***************************************************************************)
(* SpecClients: one agent with a system prompt, constructed with each      *)
(* client selection with and without its credentials in the environment.   *)
(***************************************************************************)
ClientReplies == {TransportError, [kind |-> "object", obj |-> AllOk]}

InitClients ==
    /\ Construct_Agent(SystemPrompts \ {<<>>}, BOOLEAN, {PlanSchema},
                       {DefaultTools})
    /\ transport \in Transports
    /\ Sequential
    /\ NoBrowser

NextClients ==
    /\ calls < MaxCalls
    /\ \/ \E i \in RunInputs({PageEnvelope, InvalidEnvelope}, ClientReplies) :
             Run(i.e, i.screenshot, i.v, i.reply)
       \/ \E tool_call \in ToolCalls, behaviour \in ToolBehaviours :
             AppendToolResponse(tool_call, behaviour)

SpecClients == InitClients /\ [][NextClients]_vars

(***************************************************************************)
(* SpecRegistry: agents constructed from every list of at most MaxTools    *)
(* (function, description) pairs, and the tool calls dispatched on them.   *)
(***************************************************************************)
InitRegistry ==
    /\ Construct_Agent(SystemPrompts \ {<<>>}, BOOLEAN, {PlanSchema}, ToolLists)
    /\ Connected
    /\ Sequential
    /\ NoBrowser

NextRegistry ==
    /\ calls < MaxCalls
    /\ \E tool_call \in ToolCalls, behaviour \in ToolBehaviours :
          AppendToolResponse(tool_call, behaviour)

SpecRegistry == InitRegistry /\ [][NextRegistry]_vars

(***************************************************************************)
(* SpecBrowser: calls of the browser tools and of execute_sub_task, with   *)
(* every way their skill or executor can end.                              *)
(***************************************************************************)
InitBrowser ==
    /\ Construct_Agent(SystemPrompts \ {<<>>}, {TRUE}, {PlanSchema},
                       {DefaultTools})
    /\ Connected
    /\ Sequential
    /\ NoBrowser

NextBrowser ==
    /\ calls < MaxCalls
    /\ \/ \E tool \in BrowserTools, work \in Outcomes :
             \E argument \in Arguments(tool) : InvokeTool(tool, argument, work)
       \/ \E sub_task \in SubTasks, work \in Outcomes, result \in Results :
             ExecuteSubTask(sub_task, work, result)

SpecBrowser == InitBrowser /\ [][NextBrowser]_vars

(***************************************************************************)
(* Properties.                                                             *)
(***************************************************************************)
RanModel == last.op = "run" /\ last.model_calls = 1

GotObject == RanModel /\ last.reply.kind = "object"

\* The field g of the response needs no repair, or gets one: a value of its
\* type, null or nothing for an optional field, nothing for a defaulted one.
WellSupplied(schema, obj, g) ==
    \/ obj[g] = "ok"
    \/ obj[g] \in {"null", "absent"} /\ schema[g].annotation = "Optional"
    \/ obj[g] = "absent" /\ schema[g].has_default

OmittedOptional(f) ==
    /\ GotObject
    /\ output_format[f].annotation = "Optional"
    /\ last.reply.obj[f] = "absent"

\* C1: when the response is a JSON object that omits a field whose type
\* admits None, run does not raise because of that field (it is not among the
\* fields of a raised error, and run returns when every other field is well
\* supplied), and a returned output has None in that field.
C1_OmittedOptionalIsNone ==
    \A f \in FieldNames :
        OmittedOptional(f) =>
            /\ f \notin last.error.fields
            /\ last.outcome = "returned" => last.output[f] = "None"
            /\ (\A g \in FieldNames \ {f} :
                    WellSupplied(output_format, last.reply.obj, g))
                   => last.outcome = "returned"

C1_Witness ==
    \E f \in FieldNames :
        /\ OmittedOptional(f)
        /\ ~output_format[f].has_default
        /\ last.outcome = "returned"
        /\ last.output[f] = "None"

OmittedRequired(f) ==
    /\ GotObject
    /\ IsRequired(output_format, f)
    /\ last.reply.obj[f] = "absent"

\* C2: when the response is a JSON object missing a required field (one that
\* lines 229-230 report as "Missing required field"), run raises the schema
\* violation and returns no output.
C2_MissingRequiredRaises ==
    (\E f \in FieldNames : OmittedRequired(f)) =>
        /\ last.outcome = "raised"
        /\ last.error.cause = "ValidationError"
        /\ last.output = NoOutput

Roles(log) == {log[i].role : i \in DOMAIN log}

\* C3: a run call whose response is not parseable as JSON raises the parse
\* failure and leaves the message log as it was before the call, system
\* message content included, with no assistant message in it.
C3_ParseFailureLeavesLogUnmodified ==
    [][(last'.op = "run" /\ last'.model_calls = 1 /\ last'.reply.kind = "garbage")
          => /\ last'.outcome = "raised"
             /\ last'.error.cause = "JSONDecodeError"
             /\ messages' = messages
             /\ "assistant" \notin Roles(messages')]_vars

ResponseTexts == {"garbage", "array", "null", "object"}

\* C4: a run call that received a response text, whatever the text, ends
\* either by returning an output or by raising the error of a malformed
\* response or of a schema violation.
C4_ReturnsOrTypedError ==
    (RanModel /\ last.reply.kind \in ResponseTexts) =>
        \/ last.outcome = "returned" /\ last.output # NoOutput
        \/ /\ last.outcome = "raised"
           /\ last.error.cause \in {"JSONDecodeError", "ValidationError"}

\* C5: the error of a parse failure carries the raw response text, the error
\* of a schema violation carries the offending field names and the raw
\* response text, and the two errors differ in type.
C5_ErrorsCarryDiagnostics ==
    /\ (RanModel /\ last.error.cause = "JSONDecodeError")
           => /\ last.error.raw = last.reply
              /\ \A r \in RawResponses :
                    ParseResponse(output_format, r).error.cause = "ValidationError"
                        => ParseResponse(output_format, r).error.type
                               # last.error.type
    /\ (RanModel /\ last.error.cause = "ValidationError")
           => /\ last.error.fields # {}
              /\ last.error.raw = last.reply

Occurrences(text, token) == Cardinality({i \in DOMAIN text : text[i] = token})

\* C6: with history retention, the system message sent to the model by any
\* run call holds the output-schema instruction exactly once.
C6_InstructionOnce ==
    (keep_message_history /\ RanModel) =>
        Occurrences(messages[1].content, json_instruction) = 1

\* C7: an agent constructed with a non-empty system prompt always has a
\* non-empty log whose first message, and no other, has role system.
C7_SingleSystemMessageFirst ==
    system_prompt # <<>> =>
        /\ Len(messages) >= 1
        /\ messages[1].role = "system"
        /\ \A i \in 2..Len(messages) : messages[i].role # "system"

C7_Witness ==
    /\ system_prompt # <<>>
    /\ calls = MaxCalls
    /\ {"user", "tool"} \subseteq Roles(messages)

IsPageMessage(m) == m.role = "user" /\ m.content[1] = "Current page URL:"

Mentions(m, objective) == \E i \in DOMAIN m.content : m.content[i] = objective

\* C8: without history retention, a run call that passed input validation
\* started from the single system message built from the system prompt, and
\* what it sent to the model holds the instruction once and, after the system
\* message, only the user messages of this call.
C8_ResetPerCall ==
    (~keep_message_history /\ last.op = "run" /\ last.input.valid) =>
        /\ last.start = <<[role |-> "system", content |-> system_prompt,
                           name |-> "", tool_call_id |-> ""]>>
        /\ messages[1].role = "system"
        /\ messages[1].content = system_prompt \o <<json_instruction>>
        /\ Len(messages) \in {2, 3}
        /\ messages[2].role = "user"
        /\ Mentions(messages[2], last.input.objective)
        /\ Len(messages) = 3 => IsPageMessage(messages[3])

C8_Witness ==
    /\ ~keep_message_history
    /\ calls = MaxCalls
    /\ last.op = "run"
    /\ last.input.valid
    /\ Len(messages) = 3

\* The number of messages the operation that led to the record op appends.
Appends(op) ==
    CASE op.op = "run" /\ op.model_calls = 1 ->
             IF PageFields \subseteq op.input.fields THEN 2 ELSE 1
      [] op.op = "tool" /\ op.outcome = "returned" -> 1
      [] OTHER -> 0

\* C9: with history retention every operation keeps the messages after the
\* system message as they are and in place, and adds one message at the end
\* of the log for each of its appends; none is removed, reordered or merged.
C9_LogOnlyGrows ==
    [][keep_message_history =>
          /\ Len(messages') = Len(messages) + Appends(last')
          /\ \A i \in 2..Len(messages) : messages'[i] = messages[i]]_vars

C9_Witness ==
    /\ keep_message_history
    /\ calls = MaxCalls
    /\ last.op = "run"
    /\ Appends(last) = 2
    /\ Len(messages) >= 4
    /\ messages[2].role \in {"user", "tool"}

PageTokens == PageFields \cup {"<url>", "<dom>"}

\* C10: the first message a run call appends is a user message without the
\* page fields, and every page field the envelope carries is in a second user
\* message appended right after it.
C10_PageFieldsKept ==
    RanModel =>
        LET n == Len(last.start)
        IN  /\ Len(messages) > n
            /\ messages[n + 1].role = "user"
            /\ \A t \in PageTokens : ~Mentions(messages[n + 1], t)
            /\ last.input.fields # {} =>
                  /\ Len(messages) = n + 2
                  /\ messages[n + 2].role = "user"
                  /\ \A f \in last.input.fields :
                        Mentions(messages[n + 2], FieldValue(last.input, f))

\* C11: when a screenshot is supplied and the vision analysis fails, run
\* still appends its user message, and that message is the serialized
\* envelope without enrichment, as when no screenshot is supplied.
C11_VisionFailureUnenriched ==
    (RanModel /\ last.screenshot /\ last.vision = "fail") =>
        LET n == Len(last.start)
        IN  /\ Len(messages) > n
            /\ messages[n + 1].role = "user"
            /\ messages[n + 1].content = model_dump_json(last.input, PageFields)

Dispatched == last'.op = "tool"

Last(log) == log[Len(log)]

\* C13: on an agent that has its message log, dispatching a tool call whose
\* callable raises appends exactly one tool message, tagged with the call
\* identifier, and raises nothing.
C13_RaisingToolAppendsFailure ==
    [][(Dispatched /\ last'.behaviour = "raises" /\ has_messages)
          => /\ last'.outcome = "returned"
             /\ Len(messages') = Len(messages) + 1
             /\ Last(messages').role = "tool"
             /\ Last(messages').tool_call_id = last'.tool_call.id]_vars

C15_UnknownToolAppendsFailure ==
    [][(Dispatched /\ last'.tool_call.name \notin DOMAIN executable_functions_list)
          => /\ last'.outcome = "returned"
             /\ Len(messages') = Len(messages) + 1
             /\ Last(messages').role = "tool"
             /\ Last(messages').tool_call_id = last'.tool_call.id]_vars

\* C16: when the model's response requests tool calls, run appends the
\* assistant message and then one tool message per requested call, in the
\* order received, calls the model again after them, and does not end on
\* that response.
C16_ToolCallsDispatchedInOrder ==
    (last.op = "run" /\ last.reply.kind = "tool_calls") =>
        /\ last.model_calls >= 2
        /\ \E i \in DOMAIN messages :
              /\ messages[i].role = "assistant"
              /\ i + Len(RequestedToolCalls) <= Len(messages)
              /\ \A k \in DOMAIN RequestedToolCalls :
                    /\ messages[i + k].role = "tool"
                    /\ messages[i + k].tool_call_id = RequestedToolCalls[k].id

\* C19: VisionAgent.run never propagates a failure to its caller: it ends
\* by returning a verdict, the fixed fallback one when the call failed.
C19_VisionAgentNeverRaises ==
    last.op = "vision_run" => last.outcome = "returned"

\* C20: VisionAgent.run's request reaches the model transport and names the
\* vision model.
C20_VisionAgentUsesVisionModel ==
    last.op = "vision_run" =>
        /\ last.model_calls = 1
        /\ last.model = vision_model_name

InLog(m, log) == \E i \in DOMAIN log : log[i] = m

VisionCallsDue(t) == IF tasks[t].screenshot THEN 1 ELSE 0

C18_WaitingCallLetsOthersStep ==
    \A t \in Tasks : \A u \in Tasks \ {t} :
        (/\ host.kind = "event_loop"
         /\ tasks[t].pc \in {"vision_wait", "model_wait"}
         /\ tasks[u].pc \notin Final)
            => CanStep(u)

\* C22: on an agent constructed with an empty system prompt, the first run
\* call with a valid input appends its user message, under either retention
\* policy.
C22_LazyLogOnFirstRun ==
    (system_prompt = <<>> /\ calls = 1 /\ last.op = "run" /\ last.input.valid)
        => /\ last.error.type # "AttributeError"
           /\ Len(messages) >= 2
           /\ messages[2].role = "user"

\* C25: a run call whose input is not an instance of the input format raises
\* at once: the log is as it was (not reset, nothing appended, system
\* message not augmented) and neither model has been called.
C25_RejectedInputTouchesNothing ==
    [][\A t \in Tasks :
          (/\ tasks[t].pc = "created"
           /\ tasks'[t].pc # "created"
           /\ ~tasks'[t].input.valid)
              => /\ tasks'[t].pc = "raised"
                 /\ tasks'[t].error.type = "ValueError"
                 /\ tasks'[t].vision_calls = 0
                 /\ tasks'[t].model_calls = 0
                 /\ messages' = messages
                 /\ has_messages' = has_messages]_vars

C25_Witness ==
    \E t \in Tasks :
        /\ ~tasks[t].input.valid
        /\ tasks[t].screenshot
        /\ tasks[t].pc = "raised"
        /\ ~keep_message_history
        /\ Len(messages) > 1

\* C26: a run call that passed input validation has ended after exactly one
\* text-model call, in a return or a raise.
C26_OneModelCallThenEnd ==
    (last.op = "run" /\ last.input.valid) =>
        /\ last.model_calls = 1
        /\ last.outcome \in {"returned", "raised"}

\* C27: a run call adds no role to the log other than system and user: the
\* model's reply is not appended as an assistant message and no tool message
\* is appended.
C27_RunAppendsOnlyUserMessages ==
    [][last'.op = "run" =>
          Roles(messages') \subseteq Roles(messages) \cup {"system", "user"}]_vars

C27_Witness ==
    /\ keep_message_history
    /\ calls = MaxCalls
    /\ last.op = "run"
    /\ last.outcome = "returned"
    /\ Len(messages) >= 3
    /\ Roles(messages) = {"system", "user"}

\* C28: with history retention, a run call that passed input validation
\* leaves the log longer by 1 (envelope without both page fields) or by 2
\* (with both), whether it returned or raised.
C28_RetainedCallGrowsLog ==
    [][(keep_message_history /\ last'.op = "run" /\ last'.input.valid)
          => Len(messages') = Len(messages)
                 + (IF HasPageMessage(last'.input) THEN 2 ELSE 1)]_vars

\* C21: an agent without a usable transport has no user message in its log:
\* the missing configuration is raised by the constructor, before any run
\* call can append.
C21_NoTransportNoUserMessage ==
    ~has_client => /\ "user" \notin Roles(messages)
                   /\ last.model_calls = 0

\* C23: after construction the list of tool schemas and the map of
\* callables describe the same tools one to one: as many entries in the one
\* as in the other, and each schema's name mapped to the function the schema
\* was built from.
C23_RegistryOneToOne ==
    /\ Len(tools_list) = Cardinality(DOMAIN executable_functions_list)
    /\ \A i \in DOMAIN tools_list :
          /\ tools_list[i].name \in DOMAIN executable_functions_list
          /\ executable_functions_list[tools_list[i].name]
                 = tools_list[i].built_from

ByTool == invocation.callable \in BrowserTools

BySubTask == invocation.callable = "execute_sub_task"

\* C24 (as stated): execute_sub_task lets no exception escape: it returns a
\* string, the error message when the executor raised.
C24_SubTaskNeverRaises ==
    BySubTask =>
        /\ invocation.outcome = "returned"
        /\ invocation.work \in Exceptions
               => invocation.value[1] = "Error executing sub-task"

\* C24 (amended): execute_sub_task returns str(result) when the executor
\* returns, and the message "Error executing sub-task '<sub_task>': ..."
\* when the executor raises an exception derived from Exception; only an
\* exception outside that hierarchy escapes it.
C24_SubTaskConvertsExceptions ==
    BySubTask =>
        /\ invocation.work = "completes" =>
              /\ invocation.outcome = "returned"
              /\ invocation.value =
                     <<IF invocation.result.type = "NoneType"
                       THEN "None" ELSE invocation.result.value>>
        /\ (/\ invocation.work \in Exceptions
            /\ ExceptionBase[invocation.work] = "Exception") =>
              /\ invocation.outcome = "returned"
              /\ invocation.value[1] = "Error executing sub-task"
              /\ invocation.value[3] = invocation.argument
        /\ invocation.outcome = "raised" =>
              /\ invocation.error = invocation.work
              /\ ExceptionBase[invocation.error] = "BaseException"

C24_Witness ==
    /\ BySubTask
    /\ calls = MaxCalls
    /\ \/ invocation.work = "TimeoutError" /\ invocation.outcome = "returned"
       \/ invocation.work = "completes" /\ invocation.result.type = "str"

\* C29: a call of the click tool performs the click skill once, with the
\* selector it was given, reports success only when the skill completed,
\* and does not enter the tool again.
C29_ClickPerformsSkillOnce ==
    invocation.callable = "click" =>
        /\ invocation.skill_calls = 1
        /\ ~invocation.reentered
        /\ Last(performed) = [callee |-> "click_using_selector.click",
                              argument |-> invocation.argument]
        /\ invocation.value[1] = "Successfully clicked element with selector: "
               => invocation.work = "completes"

\* C30 (as stated): no exception of its skill escapes a browser tool: the
\* tool returns a string beginning with "Error".
C30_ToolsNeverRaise ==
    ByTool =>
        /\ invocation.outcome = "returned"
        /\ invocation.work \in Exceptions => invocation.value[1] = "Error"

\* C30 (amended): a browser tool whose skill raises an exception derived
\* from Exception returns a string beginning with "Error" and its own
\* failure text; a tool whose skill completes returns its success value;
\* only an exception outside the Exception hierarchy escapes a tool.
C30_ToolsConvertExceptions ==
    ByTool =>
        /\ invocation.work = "completes" =>
              /\ invocation.outcome = "returned"
              /\ invocation.value
                     = Success(invocation.callable, invocation.argument)
        /\ (/\ invocation.work \in Exceptions
            /\ ExceptionBase[invocation.work] = "Exception") =>
              /\ invocation.outcome = "returned"
              /\ invocation.value[1] = "Error"
              /\ invocation.value[2] = Failure(invocation.callable)
        /\ invocation.outcome = "raised" =>
              /\ invocation.error = invocation.work
              /\ ExceptionBase[invocation.error] = "BaseException"

C30_Witness ==
    /\ ByTool
    /\ invocation.callable # "click"
    /\ invocation.work = "TimeoutError"
    /\ invocation.outcome = "returned"
    /\ invocation.value[1] = "Error"

====
